---- MODULE Spec2Model ----
(***************************************************************************)
(* ChatDatabase ingestion pipeline: the README collector                   *)
(* (database/test_getall_repo.py), the summary generator                   *)
(* (database/text_summary_readme.py) and the vector index builder          *)
(* (database/create_db.py), each modelled as a sequential state machine.   *)
(***************************************************************************)
EXTENDS Integers, Sequences, FiniteSets, TLC

VARIABLES
    \* ---- DatawhaleRepoCollector ----
    pc,              \* position of the collector's control flow
    page,            \* get_organization_repos: local `page`
    repos,           \* get_organization_repos: local `repos` / collect_all_readmes: `repos`
    requests,        \* every GET of the repository list, with the answer it got
    idx,             \* collect_all_readmes: index of the repository the for loop is at
    cand,            \* get_repo_readme: index into readme_files
    remote,          \* the remote repository's answer for each candidate file name
    readme_requests, \* candidate indexes GET was issued for, in order (current call)
    readme_content,  \* get_repo_readme's return value
    processed,       \* indexes of `repos` whose loop body was entered, in order
    success_count,
    failed_count,
    file_paths,      \* repo name -> path, as a set of names (the path is a function of the name)
    files,           \* README files on disk: repo name -> text written
    summaries,       \* collection_summary.json contents, one entry per write
    raised,          \* the exception that escaped the running operation, "" when none
    \* ---- ReadmeSummarizer.filter_content ----
    filter_pc,       \* "call" before filter_content runs, "done" after, "idle" when unused
    content,         \* filter_content's argument, a sequence of code points
    filtered,        \* filter_content's return value
    \* ---- ReadmeSummarizer.process_all_readmes ----
    sum_pc,          \* "loop" while the for loop runs, "done" after, "idle" when unused
    llm_type,        \* self.llm_type
    readme_infos,    \* the ReadmeInfo list read_readme_files returned
    info_idx,        \* index of the ReadmeInfo the for loop is at
    sum_success_count, \* process_all_readmes: success_count
    summary_files,   \* <repo>_summary.json files on disk: repo name -> summary_data
    attempts,        \* what happened to each ReadmeInfo, in order
    logged,          \* the final "success/total" log line, <<>> when not logged
    \* ---- KnowledgeBaseLoader.create_vector_db ----
    index_pc,        \* "load", "create", "done"; "idle" when unused
    path_exists,     \* self.docs_path.exists()
    dir_files,       \* what docs_path.rglob("*") yields
    file_idx,        \* index of the file load_documents is at
    documents,       \* the chunks loaded so far
    embed_calls,     \* calls of the embedding function
    collection,      \* the vector collection created, <<>> when none
    persisted,       \* vector_db.persist() was called
    index_raised,    \* the exception create_vector_db raised, "" when none
    \* ---- construction of the three components ----
    component,       \* which program runs: "collector", "summarizer", "index"
    setup_pc,        \* position in the constructor / main; "idle" when unused
    api_key,         \* the constructor's token / api_key argument
    env,             \* the environment after load_dotenv(): variable -> value
    chunk_size,      \* KnowledgeBaseLoader: self.chunk_size
    chunk_overlap,   \* KnowledgeBaseLoader: self.chunk_overlap
    effects,         \* directories created, files written, requests issued, in order
    setup_raised,    \* the exception construction raised, "" when none
    \* ---- two runs of collect_all_readmes against the same remote data ----
    run_no,          \* 1 or 2; 0 when unused
    world,           \* repo name -> the platform's answers and the disk's, once fixed
    first,           \* what the first run left: its list requests and the README files
    \* ---- the header written by the collector, read by extract_metadata ----
    header_pc,       \* "write", "read", "done"; "idle" when unused
    record,          \* the repository record
    readme_lines,    \* the README body, a sequence of lines
    readme_text,     \* README.md as written, a sequence of lines
    extracted        \* extract_metadata's return value

collectorVars == <<pc, page, repos, requests, idx, cand, remote, readme_requests,
                   readme_content, processed, success_count, failed_count,
                   file_paths, files, summaries, raised>>

filterVars == <<filter_pc, content, filtered>>

summarizerVars == <<sum_pc, llm_type, readme_infos, info_idx, sum_success_count,
                    summary_files, attempts, logged>>

indexVars == <<index_pc, path_exists, dir_files, file_idx, documents, embed_calls,
               collection, persisted, index_raised>>

setupVars == <<component, setup_pc, api_key, env, chunk_size, chunk_overlap, effects,
               setup_raised>>

twiceVars == <<run_no, world, first>>

headerVars == <<header_pc, record, readme_lines, readme_text, extracted>>

vars == <<collectorVars, filterVars, summarizerVars, indexVars, setupVars, twiceVars,
          headerVars>>

\* What the steps of one component leave alone.
notCollector == <<filterVars, summarizerVars, indexVars, setupVars, twiceVars, headerVars>>
notFilter == <<collectorVars, summarizerVars, indexVars, setupVars, twiceVars, headerVars>>
notSummarizer == <<collectorVars, filterVars, indexVars, setupVars, twiceVars, headerVars>>
notIndex == <<collectorVars, filterVars, summarizerVars, setupVars, twiceVars, headerVars>>
notSetup == <<collectorVars, filterVars, summarizerVars, indexVars, twiceVars, headerVars>>
notTwice == <<filterVars, summarizerVars, indexVars, setupVars, headerVars>>
notHeader == <<collectorVars, filterVars, summarizerVars, indexVars, setupVars, twiceVars>>

-----------------------------------------------------------------------------
\* Bounds of the model.
MaxPages == 2        \* pages the API serves before it must answer empty or fail
MaxRepos == 3        \* repositories the API lists in total

\* Program constants.
per_page == 100

SeqsUpTo(S, n) == UNION {[1..k -> S] : k \in 0..n}

RECURSIVE Concat(_)
Concat(ss) == IF ss = <<>> THEN <<>> ELSE Head(ss) \o Concat(Tail(ss))

-----------------------------------------------------------------------------
\* ---- the hosting platform, as the collector sees it ----

\* A repository record of the list endpoint; has_name = FALSE is a record without
\* the 'name' key.
RepoRecords == {[has_name |-> TRUE, name |-> "a"],
                [has_name |-> TRUE, name |-> "b"],
                [has_name |-> FALSE, name |-> ""]}

\* Answers to GET /orgs/{org}/repos: a JSON page, a network error, an error status.
PageResponse(rs) == [kind |-> "page", repos |-> rs]
NetworkError == [kind |-> "neterr", repos |-> <<>>]
ErrorStatus == [kind |-> "status", repos |-> <<>>]

ListResponses(room) == {PageResponse(rs) : rs \in SeqsUpTo(RepoRecords, room)}
                           \cup {NetworkError, ErrorStatus}

\* Answers to GET /repos/{org}/{repo}/contents/{file}.
ReadmeResponse(r, s, e, d, t) ==
    [raises |-> r, status_code |-> s, encoding |-> e, decodes |-> d, text |-> t]

ReadmeResponses == {
    ReadmeResponse(FALSE, 200, "base64", TRUE, "x"),   \* a README
    ReadmeResponse(FALSE, 200, "base64", TRUE, ""),    \* an empty README
    ReadmeResponse(FALSE, 200, "base64", FALSE, ""),   \* content that does not decode
    ReadmeResponse(FALSE, 200, "none", TRUE, ""),      \* 200 without base64 encoding
    ReadmeResponse(FALSE, 404, "", TRUE, ""),          \* no such file
    ReadmeResponse(TRUE, 0, "", TRUE, "") }            \* the request raises

readme_files == <<"README.md", "readme.md", "README.txt", "readme.txt", "README">>

None == [is_none |-> TRUE, text |-> ""]
Str(t) == [is_none |-> FALSE, text |-> t]

\* Python truthiness of an Optional[str].
Truthy(v) == ~v.is_none /\ v.text # ""

-----------------------------------------------------------------------------
\* ---- DatawhaleRepoCollector.get_organization_repos ----

\* ListStep without `if not page_repos: break`: an empty page does not end the loop.
ListStepNoEmptyBreak(resp) ==
    /\ requests' = Append(requests, [page |-> page, per_page |-> per_page, resp |-> resp])
    /\ IF resp.kind # "page"
       THEN /\ repos' = repos
            /\ page' = page
            /\ pc' = IF repos = <<>> THEN "returned" ELSE "loop"
       ELSE /\ repos' = repos \o resp.repos
            /\ page' = page + 1
            /\ pc' = "list"
    /\ raised' = raised

\* ListStep without the except clause: a failed request propagates.
ListStepUncaught(resp) ==
    /\ requests' = Append(requests, [page |-> page, per_page |-> per_page, resp |-> resp])
    /\ IF resp.kind # "page"
       THEN /\ repos' = repos
            /\ page' = page
            /\ pc' = "raised"
            /\ raised' = "RequestException"
       ELSE IF resp.repos = <<>>
       THEN /\ repos' = repos
            /\ page' = page
            /\ pc' = IF repos = <<>> THEN "returned" ELSE "loop"
            /\ raised' = raised
       ELSE /\ repos' = repos \o resp.repos
            /\ page' = page + 1
            /\ pc' = "list"
            /\ raised' = raised

\* One iteration of the `while True` loop, given the answer to its GET. When the
\* loop is left, collect_all_readmes returns {} on an empty list (`if not repos`)
\* and enters its for loop otherwise.
ListStep(resp) ==
    /\ requests' = Append(requests, [page |-> page, per_page |-> per_page, resp |-> resp])
    /\ IF resp.kind # "page"
       THEN \* except requests.exceptions.RequestException: log, break
            /\ repos' = repos
            /\ page' = page
            /\ pc' = IF repos = <<>> THEN "returned" ELSE "loop"
       ELSE IF resp.repos = <<>>
       THEN \* if not page_repos: break
            /\ repos' = repos
            /\ page' = page
            /\ pc' = IF repos = <<>> THEN "returned" ELSE "loop"
       ELSE /\ repos' = repos \o resp.repos
            /\ page' = page + 1
            /\ pc' = "list"
    /\ raised' = raised

\* The API lists at most MaxRepos repositories on at most MaxPages non-empty pages.
GetOrganizationRepos ==
    /\ pc = "list"
    /\ \E resp \in ListResponses(IF Len(requests) < MaxPages
                                  THEN MaxRepos - Len(repos) ELSE 0) :
          ListStep(resp)
    /\ idx' = 1
    /\ UNCHANGED <<cand, remote, readme_requests, readme_content, processed,
                   success_count, failed_count, file_paths, files, summaries>>
    /\ UNCHANGED notCollector

-----------------------------------------------------------------------------
\* ---- DatawhaleRepoCollector.get_repo_readme ----

\* ReadmeStep where a decode failure ends the search instead of moving on.
ReadmeStepDecodeFatal(resp) ==
    /\ readme_requests' = Append(readme_requests, cand)
    /\ IF /\ ~resp.raises
          /\ resp.status_code = 200
          /\ resp.encoding = "base64"
       THEN /\ readme_content' = IF resp.decodes THEN Str(resp.text) ELSE None
            /\ cand' = cand
            /\ pc' = "fetched"
       ELSE IF cand < Len(readme_files)
       THEN /\ readme_content' = readme_content
            /\ cand' = cand + 1
            /\ pc' = "fetch"
       ELSE /\ readme_content' = None
            /\ cand' = cand
            /\ pc' = "fetched"
    /\ raised' = raised

\* One iteration of `for readme_file in readme_files`, given the answer to its GET.
ReadmeStep(resp) ==
    /\ readme_requests' = Append(readme_requests, cand)
    /\ IF /\ ~resp.raises
          /\ resp.status_code = 200
          /\ resp.encoding = "base64"
          /\ resp.decodes
       THEN /\ readme_content' = Str(resp.text)
            /\ cand' = cand
            /\ pc' = "fetched"
       ELSE IF cand < Len(readme_files)
       THEN \* non-200, other encoding: fall through; exception: continue
            /\ readme_content' = readme_content
            /\ cand' = cand + 1
            /\ pc' = "fetch"
       ELSE /\ readme_content' = None
            /\ cand' = cand
            /\ pc' = "fetched"
    /\ raised' = raised

\* Within collect_all_readmes: the platform answers each request as it comes.
GetRepoReadme ==
    /\ pc = "fetch"
    /\ \E resp \in ReadmeResponses : ReadmeStep(resp)
    /\ UNCHANGED <<page, repos, requests, idx, remote, processed, success_count,
                   failed_count, file_paths, files, summaries>>
    /\ UNCHANGED notCollector

\* A direct call, against a repository whose answers are fixed.
GetRepoReadmeRemote ==
    /\ pc = "fetch"
    /\ ReadmeStep(remote[cand])
    /\ UNCHANGED <<page, repos, requests, idx, remote, processed, success_count,
                   failed_count, file_paths, files, summaries>>
    /\ UNCHANGED notCollector

-----------------------------------------------------------------------------
\* ---- DatawhaleRepoCollector.collect_all_readmes ----

readme_dir == "database/readme_db"

\* save_readme_to_file's return value.
FilePath(repo_name) == <<readme_dir, repo_name, "README.md">>

\* The text collect_all_readmes builds: the metadata header, then the README.
RepoInfo(repo, readme) == [header |-> repo.name, body |-> readme]

\* for repo in repos: repo_name = repo['name'] (outside the try block)
EnterRepo ==
    /\ pc = "loop"
    /\ idx <= Len(repos)
    /\ processed' = Append(processed, idx)
    /\ IF repos[idx].has_name
       THEN pc' = "fetch" /\ raised' = raised
       ELSE pc' = "raised" /\ raised' = "KeyError"
    /\ cand' = 1
    /\ readme_requests' = <<>>
    /\ readme_content' = None
    /\ UNCHANGED <<page, repos, requests, idx, remote, success_count, failed_count,
                   file_paths, files, summaries>>
    /\ UNCHANGED notCollector

\* StoreStep where save_readme_to_file opens README.md with mode 'a': the text is
\* added after what the file already holds.
StoreStepAppend(write_ok) ==
    LET repo == repos[idx] IN
    /\ IF Truthy(readme_content) /\ write_ok
       THEN /\ files' = [n \in DOMAIN files \cup {repo.name} |->
                            IF n # repo.name THEN files[n]
                            ELSE IF n \in DOMAIN files
                            THEN [header |-> files[n].header, body |-> files[n].body,
                                  then |-> RepoInfo(repo, readme_content.text)]
                            ELSE RepoInfo(repo, readme_content.text)]
            /\ file_paths' = [n \in DOMAIN file_paths \cup {repo.name} |-> FilePath(n)]
            /\ success_count' = success_count + 1
            /\ failed_count' = failed_count
       ELSE /\ files' = files
            /\ file_paths' = file_paths
            /\ success_count' = success_count
            /\ failed_count' = failed_count + 1
    /\ idx' = idx + 1
    /\ pc' = "loop"
    /\ raised' = raised

\* if readme_content: save, count a success; else / except: count a failure.
StoreStep(write_ok) ==
    LET repo == repos[idx] IN
    /\ IF Truthy(readme_content) /\ write_ok
       THEN /\ files' = [n \in DOMAIN files \cup {repo.name} |->
                            IF n = repo.name THEN RepoInfo(repo, readme_content.text)
                            ELSE files[n]]
            /\ file_paths' = [n \in DOMAIN file_paths \cup {repo.name} |-> FilePath(n)]
            /\ success_count' = success_count + 1
            /\ failed_count' = failed_count
       ELSE /\ files' = files
            /\ file_paths' = file_paths
            /\ success_count' = success_count
            /\ failed_count' = failed_count + 1
    /\ idx' = idx + 1
    /\ pc' = "loop"
    /\ raised' = raised

StoreReadme ==
    /\ pc = "fetched"
    /\ \E write_ok \in (IF Truthy(readme_content) THEN BOOLEAN ELSE {TRUE}) :
          StoreStep(write_ok)
    /\ UNCHANGED <<page, repos, requests, cand, remote, readme_requests, readme_content,
                   processed, summaries>>
    /\ UNCHANGED notCollector

\* save_collection_summary(repos, file_paths)
SummaryRecord ==
    [total_repos |-> Len(repos),
     successful_collections |-> Cardinality(DOMAIN file_paths),
     failed_collections |-> Len(repos) - Cardinality(DOMAIN file_paths),
     collected_repos |-> DOMAIN file_paths,
     file_paths |-> file_paths,
     after |-> Len(processed)]

\* The loop is over: write collection_summary.json and return file_paths.
SaveCollectionSummary ==
    /\ pc = "loop"
    /\ idx > Len(repos)
    /\ \E write_ok \in BOOLEAN :
          IF write_ok
          THEN summaries' = Append(summaries, SummaryRecord)
               /\ pc' = "returned" /\ raised' = raised
          ELSE summaries' = summaries /\ pc' = "raised" /\ raised' = "OSError"
    /\ UNCHANGED <<page, repos, requests, idx, cand, remote, readme_requests,
                   readme_content, processed, success_count, failed_count,
                   file_paths, files>>
    /\ UNCHANGED notCollector

-----------------------------------------------------------------------------
EmptyMap == [n \in {} |-> <<>>]

FilterIdle ==
    /\ filter_pc = "idle"
    /\ content = <<>>
    /\ filtered = <<>>

SummarizerIdle ==
    /\ sum_pc = "idle"
    /\ llm_type = "openai"
    /\ readme_infos = <<>>
    /\ info_idx = 1
    /\ sum_success_count = 0
    /\ summary_files = EmptyMap
    /\ attempts = <<>>
    /\ logged = <<>>

IndexIdle ==
    /\ index_pc = "idle"
    /\ path_exists = FALSE
    /\ dir_files = <<>>
    /\ file_idx = 1
    /\ documents = <<>>
    /\ embed_calls = 0
    /\ collection = <<>>
    /\ persisted = FALSE
    /\ index_raised = ""

SetupIdle ==
    /\ component = "none"
    /\ setup_pc = "idle"
    /\ api_key = None
    /\ env = EmptyMap
    /\ chunk_size = 0
    /\ chunk_overlap = 0
    /\ effects = <<>>
    /\ setup_raised = ""

TwiceIdle ==
    /\ run_no = 0
    /\ world = EmptyMap
    /\ first = [requests |-> <<>>, files |-> EmptyMap]

HeaderIdle ==
    /\ header_pc = "idle"
    /\ record = EmptyMap
    /\ readme_lines = <<>>
    /\ readme_text = <<>>
    /\ extracted = EmptyMap

CollectorStart ==
    /\ page = 1
    /\ repos = <<>>
    /\ requests = <<>>
    /\ idx = 1
    /\ cand = 1
    /\ readme_requests = <<>>
    /\ readme_content = None
    /\ processed = <<>>
    /\ success_count = 0
    /\ failed_count = 0
    /\ file_paths = EmptyMap
    /\ files = EmptyMap
    /\ summaries = <<>>
    /\ raised = ""

CollectorIdle ==
    /\ pc = "idle"
    /\ remote = <<>>
    /\ CollectorStart

\* collect_all_readmes on a fresh collector.
Init ==
    /\ pc = "list"
    /\ remote = <<>>
    /\ CollectorStart
    /\ FilterIdle
    /\ SummarizerIdle
    /\ IndexIdle
    /\ SetupIdle
    /\ TwiceIdle
    /\ HeaderIdle

Next ==
    \/ GetOrganizationRepos
    \/ EnterRepo
    \/ GetRepoReadme
    \/ StoreReadme
    \/ SaveCollectionSummary

Spec == Init /\ [][Next]_vars

\* get_repo_readme called directly (test_collector.py) on one repository.
InitReadme ==
    /\ pc = "fetch"
    /\ remote \in [1..Len(readme_files) -> ReadmeResponses]
    /\ CollectorStart
    /\ FilterIdle
    /\ SummarizerIdle
    /\ IndexIdle
    /\ SetupIdle
    /\ TwiceIdle
    /\ HeaderIdle

NextReadme == GetRepoReadmeRemote

SpecReadme == InitReadme /\ [][NextReadme]_vars

-----------------------------------------------------------------------------
\* ---- properties of the collector ----

IsNonEmptyPage(r) == r.kind = "page" /\ r.repos # <<>>
IsEmptyPage(r) == r.kind = "page" /\ r.repos = <<>>
IsFailure(r) == r.kind \in {"neterr", "status"}

\* The records of the first n answers, page by page.
PagesUpTo(n) == [i \in 1..n |-> requests[i].resp.repos]

UpTo(n) == [i \in 1..n |-> i]

Terminated == pc \in {"returned", "raised"}

\* C1: pagination requests pages 1, 2, ... once each in increasing order with
\* per_page = 100; when the API has answered N non-empty pages and then an empty
\* page the loop has ended, the result is the concatenation of the N pages in
\* order, exactly N + 1 requests were made, and no request follows an empty page.
C1_PaginationExact ==
    /\ \A i \in 1..Len(requests) :
          requests[i].page = i /\ requests[i].per_page = 100
    /\ \A i \in 1..(Len(requests) - 1) : ~IsEmptyPage(requests[i].resp)
    /\ \A n \in 0..(Len(requests) - 1) :
          (/\ \A i \in 1..n : IsNonEmptyPage(requests[i].resp)
           /\ IsEmptyPage(requests[n + 1].resp))
          => /\ pc # "list"
             /\ Len(requests) = n + 1
             /\ repos = Concat(PagesUpTo(n))

\* C1 witness: two non-empty pages (2 + 1 records), then the empty page.
C1_Witness ==
    /\ Len(requests) = 3
    /\ Len(requests[1].resp.repos) = 2
    /\ Len(requests[2].resp.repos) = 1
    /\ IsEmptyPage(requests[3].resp)
    /\ pc = "loop"
    /\ repos = requests[1].resp.repos \o requests[2].resp.repos

\* C2: when the request for page k fails, no exception escapes, no further request
\* is made, and the result is exactly the records of pages 1..k-1, in order.
C2_FailureStopsPagination ==
    \A k \in 1..Len(requests) :
        IsFailure(requests[k].resp)
        => /\ Len(requests) = k
           /\ pc # "list"
           /\ raised # "RequestException"
           /\ (processed = <<>> => raised = "")
           /\ \A i \in 1..(k - 1) : IsNonEmptyPage(requests[i].resp)
           /\ repos = Concat(PagesUpTo(k - 1))

\* C2 witness: page 1 answers two records, page 2 answers an error status.
C2_Witness ==
    /\ Len(requests) = 2
    /\ requests[2].resp = ErrorStatus
    /\ Len(repos) = 2
    /\ repos = requests[1].resp.repos
    /\ pc = "loop"

\* A candidate qualifies: 200, base64 content that decodes.
Qualifies(r) ==
    ~r.raises /\ r.status_code = 200 /\ r.encoding = "base64" /\ r.decodes

\* Index of the first qualifying candidate of the repository, 0 when none.
FirstQualifying ==
    IF \E i \in DOMAIN remote : Qualifies(remote[i])
    THEN CHOOSE i \in DOMAIN remote :
            Qualifies(remote[i]) /\ \A j \in 1..(i - 1) : ~Qualifies(remote[j])
    ELSE 0

\* C3: candidates are requested in the fixed order README.md, readme.md,
\* README.txt, readme.txt, README; the call returns the content of the first
\* qualifying candidate and requests nothing after it, returns None when no
\* candidate qualifies (after trying all five), and never raises.
C3_FirstQualifyingCandidate ==
    /\ readme_files = <<"README.md", "readme.md", "README.txt", "readme.txt", "README">>
    /\ readme_requests = UpTo(Len(readme_requests))
    /\ raised = ""
    /\ pc = "fetch" => \A i \in 1..Len(readme_requests) : ~Qualifies(remote[i])
    /\ pc = "fetched" =>
          IF FirstQualifying = 0
          THEN readme_content = None /\ readme_requests = UpTo(Len(readme_files))
          ELSE /\ readme_content = Str(remote[FirstQualifying].text)
               /\ readme_requests = UpTo(FirstQualifying)

\* C3 witness: README.md and readme.md both present with different content;
\* README.md's is returned after a single request.
C3_Witness ==
    /\ pc = "fetched"
    /\ Qualifies(remote[1]) /\ remote[1].text = "x"
    /\ Qualifies(remote[2]) /\ remote[2].text = ""
    /\ readme_content = Str("x")
    /\ readme_requests = <<1>>

\* C4 (as claimed): when collect_all_readmes has ended, every listed repository
\* was processed exactly once, in list order, whatever failed on the way.
C4_EveryRepoProcessed ==
    Terminated => processed = UpTo(Len(repos))

\* C5 (as claimed): every run of collect_all_readmes, an empty listing included,
\* has written exactly one summary, after the last repository, with total_repos
\* the number listed, successful_collections the number of README files
\* persisted, and successful + failed = total.
C5_OneSummaryPerRun ==
    /\ Len(summaries) <= 1
    /\ Terminated =>
          /\ Len(summaries) = 1
          /\ summaries[1].after = Len(repos)
          /\ summaries[1].total_repos = Len(repos)
          /\ summaries[1].successful_collections = Cardinality(DOMAIN files)
          /\ summaries[1].successful_collections = Cardinality(DOMAIN file_paths)
          /\ summaries[1].successful_collections + summaries[1].failed_collections
                = summaries[1].total_repos

-----------------------------------------------------------------------------
\* ---- ReadmeSummarizer.filter_content ----
\* Text is a sequence of code points: an ASCII character is itself, any other
\* code point is written "U+XXXX".

LowerCase == <<"a", "b", "c", "d", "e", "f", "g", "h", "i", "j", "k", "l", "m", "n", "o", "p", "q", "r", "s", "t", "u", "v", "w", "x", "y", "z">>
UpperCase == <<"A", "B", "C", "D", "E", "F", "G", "H", "I", "J", "K", "L", "M", "N", "O", "P", "Q", "R", "S", "T", "U", "V", "W", "X", "Y", "Z">>
Digits == {"0", "1", "2", "3", "4", "5", "6", "7", "8", "9"}

Range(f) == {f[i] : i \in DOMAIN f}

\* What one repetition of the url_pattern group can match as a single character:
\* [a-zA-Z], [0-9], [$-_@.&+] (the range $ to _, then @ . & +), [!*\\(\\),].
\* The %XX alternative adds nothing: % and the hex digits are in the range.
UrlChars ==
    Range(LowerCase) \cup Range(UpperCase) \cup Digits
    \cup Range(<<"!", "$", "%", "&", "'", "(", ")", "*", "+", ",", "-", ".", "/", ":", ";", "<", "=", ">", "?", "@", "[", "\\", "]", "^", "_">>)

\* t has the literal w at position i.
HasAt(t, i, w) ==
    /\ i >= 1
    /\ i + Len(w) - 1 <= Len(t)
    /\ \A k \in 1..Len(w) : t[i + k - 1] = w[k]

\* Number of consecutive UrlChars of t from position i on.
RECURSIVE RunLen(_, _)
RunLen(t, i) ==
    IF i <= Len(t) /\ t[i] \in UrlChars THEN 1 + RunLen(t, i + 1) ELSE 0

\* url_pattern: http[s]?://(...)+ ; the length of its match at position i, 0 when
\* it does not match there.
UrlMatchLen(t, i) ==
    LET scheme ==
            IF ~HasAt(t, i, <<"h", "t", "t", "p">>) THEN 0
            ELSE IF HasAt(t, i + 4, <<"s", ":", "/", "/">>) THEN 8
            ELSE IF HasAt(t, i + 4, <<":", "/", "/">>) THEN 7
            ELSE 0
        run == IF scheme = 0 THEN 0 ELSE RunLen(t, i + scheme)
    IN  IF run = 0 THEN 0 ELSE scheme + run

UrlToken == <<"[", "U", "R", "L", "]">>

\* url_pattern.sub('[URL]', t), from position i on: leftmost matches, left to right.
RECURSIVE SubUrlFrom(_, _)
SubUrlFrom(t, i) ==
    IF i > Len(t) THEN <<>>
    ELSE LET n == UrlMatchLen(t, i) IN
         IF n > 0 THEN UrlToken \o SubUrlFrom(t, i + n)
         ELSE <<t[i]>> \o SubUrlFrom(t, i + 1)

SubUrl(t) == SubUrlFrom(t, 1)

\* The fixed sensitive-word list, in the order filter_content applies it.
sensitive_words == <<
    <<"U+5BC6", "U+7801">>,
    <<"p", "a", "s", "s", "w", "o", "r", "d">>,
    <<"t", "o", "k", "e", "n">>,
    <<"s", "e", "c", "r", "e", "t">>,
    <<"k", "e", "y">>,
    <<"U+79C1", "U+94A5">>,
    <<"U+8BBF", "U+95EE", "U+4EE4", "U+724C">>,
    <<"a", "p", "i", "_", "k", "e", "y">>,
    <<"a", "c", "c", "e", "s", "s", "_", "t", "o", "k", "e", "n">>,
    <<"p", "r", "i", "v", "a", "t", "e", "_", "k", "e", "y">>,
    <<"U+79D8", "U+94A5">> >>

\* '[敏感信息]'
RedactionToken == <<"[", "U+654F", "U+611F", "U+4FE1", "U+606F", "]">>

\* re.IGNORECASE on str patterns: a character matches a lower-case pattern letter
\* when it is that letter in either case (and K, the Kelvin sign, matches k; the
\* long s matches s).
Fold(c) ==
    IF \E i \in DOMAIN UpperCase : UpperCase[i] = c
    THEN LowerCase[CHOOSE i \in DOMAIN UpperCase : UpperCase[i] = c]
    ELSE IF c = "U+212A" THEN "k"
    ELSE IF c = "U+017F" THEN "s"
    ELSE c

\* t has the word w at position i, in any letter case.
WordAt(t, i, w) ==
    /\ i + Len(w) - 1 <= Len(t)
    /\ \A k \in 1..Len(w) : Fold(t[i + k - 1]) = w[k]

\* re.sub(re.escape(w), '[敏感信息]', t, flags=re.IGNORECASE), from position i on.
RECURSIVE SubWordFrom(_, _, _)
SubWordFrom(t, i, w) ==
    IF i > Len(t) THEN <<>>
    ELSE IF WordAt(t, i, w) THEN RedactionToken \o SubWordFrom(t, i + Len(w), w)
    ELSE <<t[i]>> \o SubWordFrom(t, i + 1, w)

\* The for loop over sensitive_words, from the k-th word on.
RECURSIVE SubWordsFrom(_, _)
SubWordsFrom(t, k) ==
    IF k > Len(sensitive_words) THEN t
    ELSE SubWordsFrom(SubWordFrom(t, 1, sensitive_words[k]), k + 1)

\* filter_content(content): URLs first, then the sensitive words.
FilterContentOf(t) == SubWordsFrom(SubUrl(t), 1)

\* Inputs: texts put together from at most MaxPieces of these pieces.
MaxPieces == 4

Pieces == {
    <<"h", "t", "t", "p", ":", "/", "/">>,
    <<"h", "t", "t", "p", "s", ":", "/", "/">>,
    <<"a">>,
    <<" ">>,
    <<"U+5BC6", "U+7801">>,
    <<"K", "e", "y">>,
    <<"a", "p", "i", "_">>,
    <<"t", "o", "k", "e", "n">>,
    <<"a", "c", "c", "e", "s", "s", "_">> }

FilterInputs == {Concat(ps) : ps \in SeqsUpTo(Pieces, MaxPieces)}

FilterContent ==
    /\ filter_pc = "call"
    /\ filtered' = FilterContentOf(content)
    /\ filter_pc' = "done"
    /\ UNCHANGED content
    /\ UNCHANGED notFilter

InitFilter ==
    /\ filter_pc = "call"
    /\ content \in FilterInputs
    /\ filtered = <<>>
    /\ CollectorIdle
    /\ SummarizerIdle
    /\ IndexIdle
    /\ SetupIdle
    /\ TwiceIdle
    /\ HeaderIdle

NextFilter == FilterContent

SpecFilter == InitFilter /\ [][NextFilter]_vars

\* ---- properties of filter_content ----

HasUrl(t) == \E i \in 1..Len(t) : UrlMatchLen(t, i) > 0

\* Number of positions of t at which the word w occurs, in any letter case.
Occurrences(t, w) == Cardinality({i \in 1..Len(t) : WordAt(t, i, w)})

\* Occurrences of the words k..11 of the list, added up.
RECURSIVE ListOccurrencesFrom(_, _)
ListOccurrencesFrom(t, k) ==
    IF k > Len(sensitive_words) THEN 0
    ELSE Occurrences(t, sensitive_words[k]) + ListOccurrencesFrom(t, k + 1)

Tokens(t) == Cardinality({i \in 1..Len(t) : HasAt(t, i, RedactionToken)})

\* C6 (as claimed): when the input contains a URL, nothing in the output of
\* filter_content matches url_pattern.
C6_NoUrlInOutput ==
    (filter_pc = "done" /\ HasUrl(content)) => ~HasUrl(filtered)

\* C7 (as claimed): the output of filter_content holds at least as many redaction
\* tokens as the URL-redacted text holds occurrences of list words, every list
\* word counted (token and access_token, key and api_key), and no list word is left.
C7_RedactionCount ==
    filter_pc = "done" =>
        /\ Tokens(filtered) >= ListOccurrencesFrom(SubUrl(content), 1)
        /\ ListOccurrencesFrom(filtered, 1) = 0

-----------------------------------------------------------------------------
\* ---- ReadmeSummarizer.process_all_readmes ----

MaxDocs == 2         \* README files read_readme_files loads

RepoNames == {"a", "b", "c"}

ReadmeTexts == { <<"a">>, <<"K", "e", "y">> }

\* A ReadmeInfo: one per repository directory.
ReadmeInfo(n, t) == [repo_name |-> n, content |-> t, metadata |-> <<>>]

\* What read_readme_files can return: the directories of readme_db have
\* different names.
ReadmeInfoLists ==
    {l \in SeqsUpTo({ReadmeInfo(n, t) : n \in RepoNames, t \in ReadmeTexts}, MaxDocs) :
        \A i, j \in DOMAIN l : l[i].repo_name = l[j].repo_name => i = j}

\* What client.chat.completions.create does: answers with a text, or raises
\* with a message.
ModelResponses == {[ok |-> TRUE, text |-> "summary"],
                   [ok |-> FALSE, text |-> "timeout"],
                   [ok |-> FALSE, text |-> "quota"]}

\* '摘要生成失败: '
SummaryFailedPrefix ==
    <<"U+6458", "U+8981", "U+751F", "U+6210", "U+5931", "U+8D25", ":", " ">>

SupportedLlmTypes == {"zhipuai", "openai"}

\* generate_summary without the try/except of the backend call.
GenerateSummaryUncaught(llm, resp) ==
    IF llm \in SupportedLlmTypes
    THEN IF resp.ok
         THEN [raises |-> "", called |-> TRUE, summary |-> <<resp.text>>]
         ELSE [raises |-> "Exception", called |-> TRUE, summary |-> <<>>]
    ELSE [raises |-> "ValueError", called |-> FALSE, summary |-> <<>>]

\* generate_summary: dispatch on llm_type; each backend answers the model's text,
\* or f"摘要生成失败: {str(e)}" when the call raised e.
GenerateSummary(llm, resp) ==
    IF llm \in SupportedLlmTypes
    THEN [raises |-> "",
          called |-> TRUE,
          summary |-> IF resp.ok THEN <<resp.text>>
                      ELSE SummaryFailedPrefix \o <<resp.text>>]
    ELSE [raises |-> "ValueError", called |-> FALSE, summary |-> <<>>]

\* save_summary: summary_data
SummaryData(repo_name, summary, metadata) ==
    [repo_name |-> repo_name, summary |-> summary, metadata |-> metadata,
     generated_at |-> "cwd", llm_type |-> llm_type]

\* readme_files = self.read_readme_files(); if not readme_files: return
ReadReadmeFiles ==
    /\ sum_pc = "start"
    /\ sum_pc' = IF readme_infos = <<>> THEN "done" ELSE "loop"
    /\ UNCHANGED <<llm_type, readme_infos, info_idx, sum_success_count, summary_files,
                   attempts, logged>>
    /\ UNCHANGED notSummarizer

\* One iteration of `for readme_info in readme_files`.
ProcessStep(resp, write_ok) ==
    LET info == readme_infos[info_idx]
        filtered_content == FilterContentOf(info.content)
        g == GenerateSummary(llm_type, resp)
        saved == g.raises = "" /\ write_ok
    IN  /\ attempts' = Append(attempts,
                          [repo_name |-> info.repo_name,
                           prompt |-> filtered_content,
                           model_called |-> g.called,
                           model_ok |-> g.called /\ resp.ok,
                           error |-> IF g.called /\ ~resp.ok THEN resp.text ELSE "",
                           raised |-> g.raises,
                           save_called |-> g.raises = "",
                           summary |-> g.summary,
                           saved |-> saved])
        /\ summary_files' =
              IF saved
              THEN [n \in DOMAIN summary_files \cup {info.repo_name} |->
                       IF n = info.repo_name
                       THEN SummaryData(info.repo_name, g.summary, info.metadata)
                       ELSE summary_files[n]]
              ELSE summary_files
        /\ sum_success_count' =
              IF g.raises = "" THEN sum_success_count + 1 ELSE sum_success_count
        /\ info_idx' = info_idx + 1

ProcessReadme ==
    /\ sum_pc = "loop"
    /\ info_idx <= Len(readme_infos)
    /\ \E resp \in ModelResponses, write_ok \in BOOLEAN : ProcessStep(resp, write_ok)
    /\ UNCHANGED <<sum_pc, llm_type, readme_infos, logged>>
    /\ UNCHANGED notSummarizer

\* logger.info(f"... {success_count}/{len(readme_files)} ...")
LogRatio ==
    /\ sum_pc = "loop"
    /\ info_idx > Len(readme_infos)
    /\ logged' = <<[success |-> sum_success_count, total |-> Len(readme_infos)]>>
    /\ sum_pc' = "done"
    /\ UNCHANGED <<llm_type, readme_infos, info_idx, sum_success_count, summary_files,
                   attempts>>
    /\ UNCHANGED notSummarizer

InitSummary ==
    /\ sum_pc = "start"
    /\ llm_type \in SupportedLlmTypes \cup {"other"}
    /\ readme_infos \in ReadmeInfoLists
    /\ info_idx = 1
    /\ sum_success_count = 0
    /\ summary_files = EmptyMap
    /\ attempts = <<>>
    /\ logged = <<>>
    /\ CollectorIdle
    /\ FilterIdle
    /\ IndexIdle
    /\ SetupIdle
    /\ TwiceIdle
    /\ HeaderIdle

NextSummary ==
    \/ ReadReadmeFiles
    \/ ProcessReadme
    \/ LogRatio

SpecSummary == InitSummary /\ [][NextSummary]_vars

\* ---- properties of process_all_readmes ----

\* C8: with a supported backend, a failed model call raises nothing: the summary
\* is the failure prefix followed by the error message, save_summary is called
\* with it, and the record written for that repository (when the file write
\* itself succeeds) carries exactly this string as its summary.
C8_DegradeNotCrash ==
    \A i \in 1..Len(attempts) :
        LET a == attempts[i] IN
        (llm_type \in SupportedLlmTypes /\ a.model_called /\ ~a.model_ok)
        => /\ a.raised = ""
           /\ a.summary = SummaryFailedPrefix \o <<a.error>>
           /\ a.error \in {r.text : r \in {m \in ModelResponses : ~m.ok}}
           /\ a.save_called
           /\ a.saved =>
                /\ a.repo_name \in DOMAIN summary_files
                /\ summary_files[a.repo_name].summary = a.summary
                /\ summary_files[a.repo_name].repo_name = a.repo_name

\* C8 witness: the zhipuai backend timed out on repository a and the record with
\* the degraded summary is on disk.
C8_Witness ==
    /\ llm_type = "zhipuai"
    /\ Len(attempts) >= 1
    /\ attempts[1].model_called /\ ~attempts[1].model_ok
    /\ attempts[1].error = "timeout"
    /\ attempts[1].repo_name \in DOMAIN summary_files
    /\ summary_files[attempts[1].repo_name].summary
          = SummaryFailedPrefix \o <<"timeout">>

\* An attempt whose filter, summarize and persist steps all succeeded.
FullySucceeded(a) ==
    /\ a.raised = ""
    /\ a.model_called /\ a.model_ok
    /\ a.repo_name \in DOMAIN summary_files
    /\ summary_files[a.repo_name].summary = a.summary

\* C9 (as claimed): after a run over the loaded documents the logged total is
\* their number, each was attempted once, in order, and the logged success count
\* is the number of documents whose summary record with a real summary is on disk.
C9_RatioShowsFailures ==
    (sum_pc = "done" /\ readme_infos # <<>>)
    => /\ Len(attempts) = Len(readme_infos)
       /\ \A i \in 1..Len(attempts) : attempts[i].repo_name = readme_infos[i].repo_name
       /\ logged = <<[success |-> Cardinality({i \in 1..Len(attempts) :
                                                  FullySucceeded(attempts[i])}),
                      total |-> Len(readme_infos)]>>

-----------------------------------------------------------------------------
\* ---- KnowledgeBaseLoader.load_documents / create_vector_db ----

MaxFiles == 2        \* entries of the docs_path tree

supported_extensions == { <<".", "p", "d", "f">>, <<".", "m", "d">>,
                          <<".", "t", "x", "t">>, <<".", "j", "s", "o", "n">> }

\* str.lower() on the characters used here.
Lower(t) ==
    [i \in DOMAIN t |->
        IF \E k \in DOMAIN UpperCase : UpperCase[k] = t[i]
        THEN LowerCase[CHOOSE k \in DOMAIN UpperCase : UpperCase[k] = t[i]]
        ELSE t[i]]

\* An entry of docs_path.rglob("*"): loads says whether _load_single_document
\* returns (chunks is how many chunks it returns) or raises.
DirEntry(f, sfx, l, c) == [is_file |-> f, suffix |-> sfx, loads |-> l, chunks |-> c]

DirEntries == {
    DirEntry(FALSE, <<>>, FALSE, 0),                      \* a directory
    DirEntry(TRUE, <<".", "p", "y">>, TRUE, 1),           \* not a supported format
    DirEntry(TRUE, <<".", "p", "d", "f">>, FALSE, 0),     \* the loader raises
    DirEntry(TRUE, <<".", "t", "x", "t">>, TRUE, 0),      \* an empty file: no chunk
    DirEntry(TRUE, <<".", "M", "D">>, TRUE, 1),
    DirEntry(TRUE, <<".", "j", "s", "o", "n">>, TRUE, 2) }

\* The chunks of the i-th entry, tagged with their source.
SplitDocs(i, n) == [k \in 1..n |-> [source |-> i, chunk |-> k]]

\* One iteration of `for file_path in self.docs_path.rglob("*")`.
LoadFile ==
    /\ index_pc = "load"
    /\ path_exists
    /\ file_idx <= Len(dir_files)
    /\ LET f == dir_files[file_idx] IN
          documents' =
             IF f.is_file /\ Lower(f.suffix) \in supported_extensions /\ f.loads
             THEN documents \o SplitDocs(file_idx, f.chunks)
             ELSE documents
    /\ file_idx' = file_idx + 1
    /\ UNCHANGED <<index_pc, path_exists, dir_files, embed_calls, collection, persisted,
                   index_raised>>
    /\ UNCHANGED notIndex

\* load_documents returns: the path does not exist, or the scan is over.
LoadDocumentsReturn ==
    /\ index_pc = "load"
    /\ ~path_exists \/ file_idx > Len(dir_files)
    /\ index_pc' = "create"
    /\ UNCHANGED <<path_exists, dir_files, file_idx, documents, embed_calls, collection,
                   persisted, index_raised>>
    /\ UNCHANGED notIndex

collection_name == "knowledge_db"

\* create_vector_db without `if not documents: raise ValueError`.
CreateStepUnchecked(embed_ok) ==
    IF documents # <<>> /\ ~embed_ok
    THEN /\ embed_calls' = embed_calls + 1
         /\ index_raised' = "EmbeddingError"
         /\ UNCHANGED <<collection, persisted>>
    ELSE /\ embed_calls' = IF documents = <<>> THEN embed_calls ELSE embed_calls + 1
         /\ collection' = <<[name |-> collection_name, documents |-> documents]>>
         /\ persisted' = TRUE
         /\ index_raised' = index_raised

\* create_vector_db after load_documents: the precondition, then
\* Chroma.from_documents (which embeds the chunks) and persist.
CreateStep(embed_ok) ==
    IF documents = <<>>
    THEN /\ index_raised' = "ValueError"
         /\ UNCHANGED <<embed_calls, collection, persisted>>
    ELSE IF ~embed_ok
    THEN /\ embed_calls' = embed_calls + 1
         /\ index_raised' = "EmbeddingError"
         /\ UNCHANGED <<collection, persisted>>
    ELSE /\ embed_calls' = embed_calls + 1
         /\ collection' = <<[name |-> collection_name, documents |-> documents]>>
         /\ persisted' = TRUE
         /\ index_raised' = index_raised

CreateVectorDb ==
    /\ index_pc = "create"
    /\ \E embed_ok \in (IF documents = <<>> THEN {TRUE} ELSE BOOLEAN) :
          CreateStep(embed_ok)
    /\ index_pc' = "done"
    /\ UNCHANGED <<path_exists, dir_files, file_idx, documents>>
    /\ UNCHANGED notIndex

InitIndex ==
    /\ index_pc = "load"
    /\ path_exists \in BOOLEAN
    /\ dir_files \in (IF path_exists THEN SeqsUpTo(DirEntries, MaxFiles) ELSE {<<>>})
    /\ file_idx = 1
    /\ documents = <<>>
    /\ embed_calls = 0
    /\ collection = <<>>
    /\ persisted = FALSE
    /\ index_raised = ""
    /\ CollectorIdle
    /\ FilterIdle
    /\ SummarizerIdle
    /\ SetupIdle
    /\ TwiceIdle
    /\ HeaderIdle

NextIndex ==
    \/ LoadFile
    \/ LoadDocumentsReturn
    \/ CreateVectorDb

SpecIndex == InitIndex /\ [][NextIndex]_vars

\* ---- properties of create_vector_db ----

\* The entry yields at least one chunk.
YieldsChunks(f) ==
    /\ f.is_file
    /\ Lower(f.suffix) \in supported_extensions
    /\ f.loads
    /\ f.chunks > 0

\* No chunk can be loaded: missing directory, no supported file, or every
\* supported file fails to load or is empty.
NothingToLoad ==
    ~path_exists \/ \A i \in DOMAIN dir_files : ~YieldsChunks(dir_files[i])

\* C10: when no chunk was loaded, create_vector_db raises ValueError, the
\* embedding function is never called and no collection is created or persisted;
\* and nothing is embedded, created or persisted while no chunk is loaded.
C10_ZeroDocumentPrecondition ==
    /\ (index_pc = "done" /\ NothingToLoad)
       => /\ documents = <<>>
          /\ index_raised = "ValueError"
          /\ embed_calls = 0
          /\ collection = <<>>
          /\ ~persisted
    /\ documents = <<>> => (embed_calls = 0 /\ collection = <<>> /\ ~persisted)

\* C10 witness: the directory exists and holds two supported files, one whose
\* loader raises and one that is empty; create_vector_db raised.
C10_Witness ==
    /\ index_pc = "done"
    /\ path_exists
    /\ Len(dir_files) = 2
    /\ dir_files[1] = DirEntry(TRUE, <<".", "p", "d", "f">>, FALSE, 0)
    /\ dir_files[2] = DirEntry(TRUE, <<".", "t", "x", "t">>, TRUE, 0)
    /\ index_raised = "ValueError"
    /\ embed_calls = 0

-----------------------------------------------------------------------------
\* ---- construction: DatawhaleRepoCollector.__init__, ReadmeSummarizer.__init__,
\* ---- create_db.main (KnowledgeBaseLoader.__init__, _get_llm_embedding) ----

MaxChunk == 3        \* largest chunk_size / chunk_overlap passed to the loader

Components == {"collector", "summarizer", "index"}

EnvNames == {"TOKEN", "ZHIPUAI_API_KEY", "OPENAI_API_KEY", "OPENAI_API_BASE"}

\* An Optional[str]: not given / unset, empty, or a value.
Optionals == {None, Str(""), Str("k")}

\* The environment variables a component reads.
EnvRead(c) ==
    IF c = "collector" THEN {"TOKEN"}
    ELSE IF c = "summarizer" THEN {"ZHIPUAI_API_KEY", "OPENAI_API_KEY"}
    ELSE {"OPENAI_API_BASE", "OPENAI_API_KEY"}

\* Python's `a or b`.
Or(a, b) == IF Truthy(a) THEN a ELSE b

Mkdir(path) == [kind |-> "mkdir", path |-> path]
LogFile(path) == [kind |-> "file", path |-> path]

summary_output_path == "knowledge_db/readme_summary"
persist_path == "vector_db/chroma"

\* DatawhaleRepoCollector.__init__: the token, then the directory and the log file.
CollectorInit ==
    /\ component = "collector"
    /\ setup_pc = "init"
    /\ LET token == Or(api_key, env["TOKEN"]) IN
       IF ~Truthy(token)
       THEN /\ setup_raised' = "ValueError"
            /\ setup_pc' = "raised"
            /\ effects' = effects
       ELSE /\ setup_raised' = setup_raised
            /\ setup_pc' = "ready"
            /\ effects' = effects \o <<Mkdir(readme_dir), LogFile("logs/repo_collector.log")>>
    /\ UNCHANGED <<component, api_key, env, chunk_size, chunk_overlap>>
    /\ UNCHANGED notSetup

\* ReadmeSummarizer.__init__: setup_logging, setup_llm, then the output directory.
\* setup_llm builds no client for an llm_type it does not know.
SummarizerInit ==
    /\ component = "summarizer"
    /\ setup_pc = "init"
    /\ LET key == IF llm_type = "zhipuai" THEN Or(api_key, env["ZHIPUAI_API_KEY"])
                  ELSE IF llm_type = "openai" THEN Or(api_key, env["OPENAI_API_KEY"])
                  ELSE None
       IN IF llm_type \in SupportedLlmTypes /\ ~Truthy(key)
          THEN /\ setup_raised' = "ValueError"
               /\ setup_pc' = "raised"
               /\ effects' = effects
          ELSE /\ setup_raised' = setup_raised
               /\ setup_pc' = "ready"
               /\ effects' = Append(effects, Mkdir(summary_output_path))
    /\ UNCHANGED <<component, api_key, env, chunk_size, chunk_overlap>>
    /\ UNCHANGED notSetup

\* KnowledgeBaseLoader.__init__: the persist directory, then the text splitter.
\* The constructor has no check of its own; langchain's TextSplitter raises
\* ValueError when chunk_overlap > chunk_size and accepts every other pair.
LoaderInit ==
    /\ component = "index"
    /\ setup_pc = "init"
    /\ effects' = Append(effects, Mkdir(persist_path))
    /\ IF chunk_overlap > chunk_size
       THEN setup_raised' = "ValueError" /\ setup_pc' = "raised"
       ELSE setup_raised' = setup_raised /\ setup_pc' = "embedding"
    /\ UNCHANGED <<component, api_key, env, chunk_size, chunk_overlap>>
    /\ UNCHANGED notSetup

\* main: loader._get_llm_embedding(), which reads os.environ[...] of both names.
GetLlmEmbedding ==
    /\ component = "index"
    /\ setup_pc = "embedding"
    /\ IF env["OPENAI_API_BASE"].is_none \/ env["OPENAI_API_KEY"].is_none
       THEN setup_raised' = "KeyError" /\ setup_pc' = "raised"
       ELSE setup_raised' = setup_raised /\ setup_pc' = "ready"
    /\ UNCHANGED <<component, api_key, env, chunk_size, chunk_overlap, effects>>
    /\ UNCHANGED notSetup

InitSetup ==
    /\ component \in Components
    /\ setup_pc = "init"
    /\ api_key \in (IF component = "index" THEN {None} ELSE Optionals)
    /\ env \in {e \in [EnvNames -> Optionals] :
                   \A n \in EnvNames \ EnvRead(component) : e[n] = None}
    /\ chunk_size \in (IF component = "index" THEN 1..MaxChunk ELSE {0})
    /\ chunk_overlap \in (IF component = "index" THEN 0..MaxChunk ELSE {0})
    /\ effects = <<>>
    /\ setup_raised = ""
    /\ llm_type \in (IF component = "summarizer" THEN SupportedLlmTypes \cup {"other"}
                     ELSE {"openai"})
    /\ sum_pc = "idle"
    /\ readme_infos = <<>>
    /\ info_idx = 1
    /\ sum_success_count = 0
    /\ summary_files = EmptyMap
    /\ attempts = <<>>
    /\ logged = <<>>
    /\ CollectorIdle
    /\ FilterIdle
    /\ IndexIdle
    /\ TwiceIdle
    /\ HeaderIdle

NextSetup ==
    \/ CollectorInit
    \/ SummarizerInit
    \/ LoaderInit
    \/ GetLlmEmbedding

SpecSetup == InitSetup /\ [][NextSetup]_vars

\* ---- properties of construction ----

\* A KnowledgeBaseLoader exists: its constructor returned.
LoaderConstructed ==
    /\ component = "index"
    /\ setup_pc \in {"embedding", "ready", "raised"}
    /\ setup_raised # "ValueError"

CredentialMissing ==
    \/ /\ component = "collector"
       /\ ~Truthy(api_key) /\ ~Truthy(env["TOKEN"])
    \/ /\ component = "summarizer"
       /\ llm_type = "zhipuai"
       /\ ~Truthy(api_key) /\ ~Truthy(env["ZHIPUAI_API_KEY"])
    \/ /\ component = "summarizer"
       /\ llm_type = "openai"
       /\ ~Truthy(api_key) /\ ~Truthy(env["OPENAI_API_KEY"])
    \/ /\ component = "index"
       /\ env["OPENAI_API_BASE"].is_none \/ env["OPENAI_API_KEY"].is_none

\* The failure raised is the one for the missing credential.
CredentialFailure ==
    /\ setup_pc = "raised"
    /\ CredentialMissing
    /\ setup_raised = IF component = "index" THEN "KeyError" ELSE "ValueError"

\* C13 (as claimed): when the failure for a missing credential is raised, the
\* component has created no directory, written no file and issued no request.
C13_CredentialCheckedFirst ==
    CredentialFailure => effects = <<>>

-----------------------------------------------------------------------------
\* ---- collect_all_readmes, run twice against the same remote data ----

NotFound == ReadmeResponse(FALSE, 404, "", TRUE, "")
Found(t) == ReadmeResponse(FALSE, 200, "base64", TRUE, t)
Raises == ReadmeResponse(TRUE, 0, "", TRUE, "")

\* What a repository answers for the five candidate names: no README, a
\* README.md, an empty README.md, a failing request before a readme.md.
AnswerVectors == {
    [i \in 1..Len(readme_files) |-> NotFound],
    [i \in 1..Len(readme_files) |-> IF i = 1 THEN Found("x") ELSE NotFound],
    [i \in 1..Len(readme_files) |-> IF i = 1 THEN Found("") ELSE NotFound],
    [i \in 1..Len(readme_files) |->
        IF i = 1 THEN Raises ELSE IF i = 2 THEN Found("x") ELSE NotFound] }

\* The first run: the platform answers the list requests as they come.
ListFirst ==
    /\ run_no = 1
    /\ GetOrganizationRepos

\* The second run: the platform answers each list request as it did before.
ListAgain ==
    /\ run_no = 2
    /\ pc = "list"
    /\ ListStep(first.requests[Len(requests) + 1].resp)
    /\ idx' = 1
    /\ UNCHANGED <<cand, remote, readme_requests, readme_content, processed,
                   success_count, failed_count, file_paths, files, summaries>>
    /\ UNCHANGED twiceVars
    /\ UNCHANGED notTwice

\* for repo in repos: repo_name = repo['name']. What the repository answers, and
\* whether its README.md can be written, is fixed the first time it is met.
EnterRepoRemote ==
    /\ pc = "loop"
    /\ idx <= Len(repos)
    /\ processed' = Append(processed, idx)
    /\ IF repos[idx].has_name
       THEN /\ pc' = "fetch"
            /\ raised' = raised
            /\ \E v \in AnswerVectors, w \in BOOLEAN :
                  world' = [n \in DOMAIN world \cup {repos[idx].name} |->
                               IF n \in DOMAIN world THEN world[n]
                               ELSE [answers |-> v, write_ok |-> w]]
            /\ remote' = world'[repos[idx].name].answers
       ELSE /\ pc' = "raised"
            /\ raised' = "KeyError"
            /\ world' = world
            /\ remote' = remote
    /\ cand' = 1
    /\ readme_requests' = <<>>
    /\ readme_content' = None
    /\ UNCHANGED <<page, repos, requests, idx, success_count, failed_count,
                   file_paths, files, summaries>>
    /\ UNCHANGED <<run_no, first>>
    /\ UNCHANGED notTwice

StoreReadmeRemote ==
    /\ pc = "fetched"
    /\ StoreStep(world[repos[idx].name].write_ok)
    /\ UNCHANGED <<page, repos, requests, cand, remote, readme_requests, readme_content,
                   processed, summaries>>
    /\ UNCHANGED twiceVars
    /\ UNCHANGED notTwice

\* The first run is over; the collector is run again. The files stay on disk.
StartSecondRun ==
    /\ run_no = 1
    /\ pc \in {"returned", "raised"}
    /\ run_no' = 2
    /\ first' = [requests |-> requests, files |-> files]
    /\ pc' = "list"
    /\ page' = 1
    /\ repos' = <<>>
    /\ requests' = <<>>
    /\ idx' = 1
    /\ cand' = 1
    /\ remote' = <<>>
    /\ readme_requests' = <<>>
    /\ readme_content' = None
    /\ processed' = <<>>
    /\ success_count' = 0
    /\ failed_count' = 0
    /\ file_paths' = EmptyMap
    /\ raised' = ""
    /\ UNCHANGED <<files, summaries, world>>
    /\ UNCHANGED notTwice

InitTwice ==
    /\ pc = "list"
    /\ remote = <<>>
    /\ CollectorStart
    /\ run_no = 1
    /\ world = EmptyMap
    /\ first = [requests |-> <<>>, files |-> EmptyMap]
    /\ FilterIdle
    /\ SummarizerIdle
    /\ IndexIdle
    /\ SetupIdle
    /\ HeaderIdle

NextTwice ==
    \/ ListFirst
    \/ ListAgain
    \/ EnterRepoRemote
    \/ GetRepoReadmeRemote
    \/ StoreReadmeRemote
    \/ SaveCollectionSummary
    \/ StartSecondRun

SpecTwice == InitTwice /\ [][NextTwice]_vars

\* ---- properties of the two runs ----

RunOver == pc \in {"returned", "raised"}

\* C12: after the second run the README files on disk are the files the first
\* run left: the same repositories, the same text in each.
C12_CollectorIdempotent ==
    (run_no = 2 /\ RunOver) => files = first.files

\* C12 witness: both runs returned, two README files are on disk and the summary
\* was written twice.
C12_Witness ==
    /\ run_no = 2
    /\ pc = "returned"
    /\ Cardinality(DOMAIN files) = 2
    /\ Len(summaries) = 2

\* What get_repo_readme returns for a repository with answers v: the decoded
\* content of the first qualifying candidate, None when there is none.
FetchResult(v) ==
    IF \E i \in DOMAIN v : Qualifies(v[i])
    THEN Str(v[CHOOSE i \in DOMAIN v :
                  Qualifies(v[i]) /\ \A j \in 1..(i - 1) : ~Qualifies(v[j])].text)
    ELSE None

\* The k-th listed repository is past its loop body; a README was found for it
\* and writing its file meets no error.
FoundAndWritable(k) ==
    /\ ~FetchResult(world[repos[k].name].answers).is_none
    /\ world[repos[k].name].write_ok

\* C14 (as claimed): every repository the loop is done with and for which a
\* README was found (any content, the empty string included) has its README.md
\* on disk, the header followed by that content, is in the name-to-path map and
\* is counted as a success; only the others are counted as failures.
C14_FoundImpliesPersisted ==
    /\ \A k \in 1..(idx - 1) :
          FoundAndWritable(k) =>
             LET n == repos[k].name IN
             /\ n \in DOMAIN files
             /\ files[n] = RepoInfo(repos[k], FetchResult(world[n].answers).text)
             /\ n \in DOMAIN file_paths
             /\ file_paths[n] = FilePath(n)
    /\ success_count = Cardinality({k \in 1..(idx - 1) : FoundAndWritable(k)})
    /\ failed_count = Cardinality({k \in 1..(idx - 1) : ~FoundAndWritable(k)})

-----------------------------------------------------------------------------
\* ---- the metadata header: collect_all_readmes writes it, extract_metadata
\* ---- reads it back ----

MaxBodyLines == 2    \* lines of the README body

scan_lines == 20     \* extract_metadata looks at lines[:20]

\* A field of the repository record (JSON): missing, null, or a value, given
\* as the text str() makes of it.
Absent == [present |-> FALSE, is_null |-> FALSE, text |-> <<>>]
Null == [present |-> TRUE, is_null |-> TRUE, text |-> <<>>]
Val(t) == [present |-> TRUE, is_null |-> FALSE, text |-> t]

\* f"{repo.get(key, default)}"
Get(v, default) ==
    IF ~v.present THEN default
    ELSE IF v.is_null THEN <<"N", "o", "n", "e">>
    ELSE v.text

\* The six header lines, in the order they are written and in the order
\* extract_metadata tests for them: metadata key, record key, label, default.
HeaderFields == <<
    [key |-> "description", field |-> "description",
     label |-> <<"U+4ED3", "U+5E93", "U+63CF", "U+8FF0">>,
     default |-> <<"U+65E0", "U+63CF", "U+8FF0">>],
    [key |-> "url", field |-> "html_url",
     label |-> <<"U+4ED3", "U+5E93", "U+5730", "U+5740">>,
     default |-> <<>>],
    [key |-> "created_at", field |-> "created_at",
     label |-> <<"U+521B", "U+5EFA", "U+65F6", "U+95F4">>,
     default |-> <<>>],
    [key |-> "updated_at", field |-> "updated_at",
     label |-> <<"U+66F4", "U+65B0", "U+65F6", "U+95F4">>,
     default |-> <<>>],
    [key |-> "language", field |-> "language",
     label |-> <<"U+4E3B", "U+8981", "U+8BED", "U+8A00">>,
     default |-> <<"U+672A", "U+77E5">>],
    [key |-> "stars", field |-> "stargazers_count",
     label |-> <<"S", "t", "a", "r", "U+6570">>,
     default |-> <<"0">>] >>

\* '**<label>**: <value>'
HeaderLine(f, rec) ==
    <<"*", "*">> \o f.label \o <<"*", "*", ":", " ">> \o Get(rec[f.field], f.default)

\* repo_info, split at '\n': the title, the six header lines, the rule, the
\* README, and the empty piece after the final newline.
RepoInfoText(rec, body) ==
    << <<"#", " ">> \o rec.name, <<>> >>
    \o [i \in 1..Len(HeaderFields) |-> HeaderLine(HeaderFields[i], rec)]
    \o << <<>>, <<"-", "-", "-">>, <<>> >>
    \o body
    \o << <<>> >>

\* 'w in line'
Contains(line, w) == \E i \in 1..Len(line) : HasAt(line, i, w)

Whitespace == {" ", "\t"}

RECURSIVE LStrip(_)
LStrip(t) == IF t # <<>> /\ Head(t) \in Whitespace THEN LStrip(Tail(t)) ELSE t

RECURSIVE RStrip(_)
RStrip(t) ==
    IF t # <<>> /\ t[Len(t)] \in Whitespace THEN RStrip(SubSeq(t, 1, Len(t) - 1)) ELSE t

\* str.strip()
Strip(t) == RStrip(LStrip(t))

\* line.split(':', 1)[1].strip() if ':' in line else ''
ValueOf(line) ==
    IF \E i \in 1..Len(line) : line[i] = ":"
    THEN LET c == CHOOSE i \in 1..Len(line) :
                     line[i] = ":" /\ \A j \in 1..(i - 1) : line[j] # ":"
         IN Strip(SubSeq(line, c + 1, Len(line)))
    ELSE <<>>

\* The if / elif chain on one line: the first label the line contains decides
\* the key that is set.
ExtractLine(md, line) ==
    IF \E k \in 1..Len(HeaderFields) : Contains(line, HeaderFields[k].label)
    THEN LET k == CHOOSE k \in 1..Len(HeaderFields) :
                     /\ Contains(line, HeaderFields[k].label)
                     /\ \A j \in 1..(k - 1) : ~Contains(line, HeaderFields[j].label)
         IN [n \in DOMAIN md \cup {HeaderFields[k].key} |->
                IF n = HeaderFields[k].key THEN ValueOf(line) ELSE md[n]]
    ELSE md

\* for line in lines[:20], from line i on.
RECURSIVE ExtractFrom(_, _, _)
ExtractFrom(md, lines, i) ==
    IF i > Len(lines) \/ i > scan_lines THEN md
    ELSE ExtractFrom(ExtractLine(md, lines[i]), lines, i + 1)

\* extract_metadata(content), content given by its lines.
ExtractMetadataOf(lines) == ExtractFrom(EmptyMap, lines, 1)

\* Repository records: the description and the star count may be missing, the
\* description and the language may be null; URL and timestamps hold colons.
HeaderRecords ==
    {[name |-> <<"a">>, description |-> d, html_url |-> Val(<<"h", ":", "/", "a">>),
      created_at |-> Val(<<"0", ":", "1">>), updated_at |-> Val(<<"0", ":", "2">>),
      language |-> l, stargazers_count |-> c] :
        d \in {Absent, Null, Val(<<"d">>)},
        l \in {Null, Val(<<"P", "y">>)},
        c \in {Absent, Val(<<"5">>)}}

\* Lines a README body may hold: text, an empty line, 'Star数: 9', '# 仓库描述'.
BodyLines == { <<"x">>, <<>>,
               <<"S", "t", "a", "r", "U+6570", ":", " ", "9">>,
               <<"#", " ", "U+4ED3", "U+5E93", "U+63CF", "U+8FF0">> }

\* The bodies collect_all_readmes writes a file for: any text but ''.
Bodies == SeqsUpTo(BodyLines, MaxBodyLines) \ { <<>>, << <<>> >> }

\* collect_all_readmes: repo_info is built and saved.
WriteHeader ==
    /\ header_pc = "write"
    /\ readme_text' = RepoInfoText(record, readme_lines)
    /\ header_pc' = "read"
    /\ UNCHANGED <<record, readme_lines, extracted>>
    /\ UNCHANGED notHeader

\* read_readme_files: content = f.read(); metadata = self.extract_metadata(content)
ExtractMetadata ==
    /\ header_pc = "read"
    /\ extracted' = ExtractMetadataOf(readme_text)
    /\ header_pc' = "done"
    /\ UNCHANGED <<record, readme_lines, readme_text>>
    /\ UNCHANGED notHeader

InitHeader ==
    /\ header_pc = "write"
    /\ record \in HeaderRecords
    /\ readme_lines \in Bodies
    /\ readme_text = <<>>
    /\ extracted = EmptyMap
    /\ CollectorIdle
    /\ FilterIdle
    /\ SummarizerIdle
    /\ IndexIdle
    /\ SetupIdle
    /\ TwiceIdle

NextHeader ==
    \/ WriteHeader
    \/ ExtractMetadata

SpecHeader == InitHeader /\ [][NextHeader]_vars

\* ---- properties of the header round trip ----

\* C15 (as claimed): the metadata read back from the written file has, under
\* each of the six keys, the value the collector wrote in the header, whatever
\* the README body holds.
C15_HeaderRoundTrip ==
    header_pc = "done"
    => \A k \in 1..Len(HeaderFields) :
          LET f == HeaderFields[k] IN
          /\ f.key \in DOMAIN extracted
          /\ extracted[f.key] = Get(record[f.field], f.default)

====
